---- MODULE Spec2Model ----
(***************************************************************************)
(* Graphify backend: the Express handlers of the conversation and user     *)
(* endpoints over the MongoDB collections `conversations` and `users`,     *)
(* together with the start-up sequence (connectDB / app.listen).           *)
(*                                                                         *)
(* A request is handled in two parts.  The synchronous part of the handler *)
(* (destructuring, the falsy checks, `new Date()`, issuing the store       *)
(* call) is one action; the store applying the call and the handler        *)
(* answering is another.  An upsert that matches no document is applied in *)
(* two store steps (match, then insert): the collections carry no unique   *)
(* index, so the store does not make that pair atomic.  Requests that read *)
(* or delete are not counted; only the saving ones are bounded.            *)
(***************************************************************************)
EXTENDS Integers, Sequences

\* ------------------------------------------------------------------ bounds
MaxSaves == 2
MaxSlots == 2

Slots == 1..MaxSlots

\* ------------------------------------------------------- JavaScript values
\* A JS value is [t |-> its kind, v |-> its content as a sequence of tokens]:
\* the characters of a string, the digits of a number, the elements of an array.
Undef == [t |-> "undefined", v |-> << >>]
Null == [t |-> "null", v |-> << >>]
Str(cs) == [t |-> "string", v |-> cs]
Num(ds) == [t |-> "number", v |-> ds]
Bool(b) == [t |-> "boolean", v |-> <<b>>]
Arr(es) == [t |-> "array", v |-> es]
Obj(ks) == [t |-> "object", v |-> ks]

\* typeof x
TypeOf(x) ==
  IF x.t \in {"null", "array", "object"} THEN "object" ELSE x.t

\* Boolean(x): the falsy values are undefined, null, false, 0, NaN and "".
Truthy(x) ==
  CASE x.t = "undefined" -> FALSE
    [] x.t = "null" -> FALSE
    [] x.t = "boolean" -> x.v = <<"true">>
    [] x.t = "number" -> x.v \notin {<<"0">>, <<"NaN">>}
    [] x.t = "string" -> Len(x.v) > 0
    [] OTHER -> TRUE

IsSpace(c) == c \in {" ", "\t", "\n"}

RECURSIVE TrimStart(_)
TrimStart(cs) ==
  IF cs = << >> THEN << >>
  ELSE IF IsSpace(Head(cs)) THEN TrimStart(Tail(cs)) ELSE cs

RECURSIVE TrimEnd(_)
TrimEnd(cs) ==
  IF cs = << >> THEN << >>
  ELSE IF IsSpace(cs[Len(cs)]) THEN TrimEnd(SubSeq(cs, 1, Len(cs) - 1)) ELSE cs

\* String.prototype.trim
Trim(cs) == TrimEnd(TrimStart(cs))

\* The text of a value in a URL path segment, as a client interpolates it and
\* Express hands it back in req.params: always a string.
ToParam(x) ==
  CASE x.t = "string" -> Str(x.v)
    [] x.t = "number" -> Str(x.v)
    [] x.t = "boolean" -> Str(x.v)
    [] OTHER -> Str(<<"[object Object]">>)

\* ------------------------------------------------------------------ inputs
S1 == Str(<<"s", "1">>)
S2 == Str(<<"s", "2">>)
N5 == Num(<<"5">>)
NeNull == Obj(<<"$ne", "null">>)
NoMessages == Arr(<< >>)
M1 == Arr(<<"m1">>)

\* req.body.sessionId of POST /api/conversations: any JSON value or absent.
BodySessionIds == {Undef, Str(<< >>), S1, S2, N5, NeNull}
\* req.body.messages: any JSON value or absent.
BodyMessages == {Undef, Bool("false"), NoMessages, M1}
\* req.params.sessionId: a non-empty path segment.
ParamSessionIds == {S1, S2, ToParam(N5)}

\* req.body.user of POST /api/users: a valid profile, and that profile with
\* one field replaced.
EmailA == Str(<<"a", "@", "x">>)
NameA == Str(<<"A", "n", "n">>)
NameB == Str(<<"B", "o", "b">>)
U1 == Str(<<"u", "1">>)

\* A user that is no record (undefined, null) has no fields to read.
NoUser == [t |-> "undefined"]

\* A record none of whose profile fields is given: {} (or an array).
EmptyUser ==
  [t |-> "object", email |-> Undef, name |-> Undef, sub |-> Undef,
   picture |-> Undef, emailVerified |-> Undef, hd |-> Undef, locale |-> Undef,
   phone |-> Undef, extra |-> Undef]

BaseUser == [EmptyUser EXCEPT !.email = EmailA, !.name = NameA]

Blank == Str(<<" ">>)

BodyUsers ==
  {NoUser, [t |-> "null"], EmptyUser, [EmptyUser EXCEPT !.t = "array"], BaseUser}
  \cup {[BaseUser EXCEPT !.email = x] : x \in {Undef, Blank, N5, U1}}
  \cup {[BaseUser EXCEPT !.name = x] : x \in {Undef, Blank, NameB}}
  \cup {[BaseUser EXCEPT !.sub = x] : x \in {Null, Num(<<"0">>), N5, U1}}
  \cup {[BaseUser EXCEPT !.sub = U1, !.name = NameB]}
  \cup {[BaseUser EXCEPT !.picture = x] : x \in {Str(<< >>), N5}}
  \cup {[BaseUser EXCEPT !.hd = Bool("true")]}
  \cup {[BaseUser EXCEPT !.locale = U1]}
  \cup {[BaseUser EXCEPT !.phone = Bool("false")]}
  \cup {[BaseUser EXCEPT !.emailVerified = x] :
          x \in {Null, Bool("true"), Str(<<"y", "e", "s">>)}}
  \cup {[BaseUser EXCEPT !.extra = U1]}

\* ------------------------------------------------------------------- state
\* conn: the outcome of client.connect(); db: the module-level handle;
\* listening: app.listen has bound the port; running: no process.exit yet;
\* clock: what new Date() returns; nextId: the next _id the store hands out;
\* saves: saving requests (conversation or user) taken so far;
\* conversations, users: the collections in natural order;
\* req: the requests whose store call is outstanding;
\* answer: the last response sent, with the request it answers;
\* lastSaved: per path segment, the messages of the last applied save not
\* followed by an applied remove (history, read by no action).
VARIABLES conn, db, listening, running, clock, nextId, saves,
          conversations, users, req, answer, lastSaved

vars == <<conn, db, listening, running, clock, nextId, saves,
          conversations, users, req, answer, lastSaved>>

Idle ==
  [kind |-> "none", pc |-> "idle", sessionId |-> Undef, messages |-> Undef,
   user |-> NoUser, now |-> 0, status |-> 0, result |-> Undef, deleted |-> -1]

Init ==
  /\ conn = "pending"
  /\ db = "undefined"
  /\ listening = FALSE
  /\ running = TRUE
  /\ clock = 0
  /\ nextId = 1
  /\ saves = 0
  /\ conversations = << >>
  /\ users = << >>
  /\ req = [i \in Slots |-> Idle]
  /\ answer = Idle
  /\ lastSaved = [p \in ParamSessionIds \cup {ToParam(NeNull)} |-> Null]

\* --------------------------------------------------------------- start-up
\* client.connect() resolves: db = client.db('fusion_ai').
ConnectOK ==
  /\ running /\ conn = "pending"
  /\ conn' = "connected"
  /\ db' = "fusion_ai"
  /\ UNCHANGED <<listening, running, clock, nextId, saves, conversations,
                 users, req, answer, lastSaved>>

\* client.connect() rejects: process.exit(1).
ConnectFail ==
  /\ running /\ conn = "pending"
  /\ conn' = "failed"
  /\ running' = FALSE
  /\ UNCHANGED <<db, listening, clock, nextId, saves, conversations, users,
                 req, answer, lastSaved>>

\* app.listen(PORT, ...) was called at module load, right after connectDB()
\* was called and not awaited: the port is bound whatever conn is.
Listen ==
  /\ running /\ ~listening
  /\ listening' = TRUE
  /\ UNCHANGED <<conn, db, running, clock, nextId, saves, conversations,
                 users, req, answer, lastSaved>>

\* Time between two requests: the clock is read only by handlers, so it is
\* advanced as a request arrives, by one tick or not at all (a frozen clock).
Elapsed == {0, 1}

\* A request can be taken into slot i: the first slot with no outstanding
\* store call.
CanTake(i) ==
  /\ running /\ listening
  /\ req[i].pc = "idle"
  /\ \A j \in 1..(i - 1) : req[j].pc /= "idle"

\* res.status(status).json(...) for request r.
Answer(r, status) == [r EXCEPT !.pc = "done", !.status = status]

\* The synchronous part of a handler that has built request r: answer 400
\* when the payload check fails, 500 when db.collection throws on the
\* undefined handle, else leave the store call outstanding in slot i.
Handle(i, r, rejected) ==
  IF rejected THEN answer' = Answer(r, 400) /\ req' = req
  ELSE IF db = "undefined" THEN answer' = Answer(r, 500) /\ req' = req
  ELSE answer' = answer /\ req' = [req EXCEPT ![i] = [r EXCEPT !.pc = "sent"]]

\* GET /health
Health(i) ==
  /\ CanTake(i)
  /\ answer' = Answer([Idle EXCEPT !.kind = "health"], 200)
  /\ UNCHANGED <<conn, db, listening, running, clock, nextId, saves, conversations,
                 users, req, lastSaved>>

\* ------------------------------------------------------ the store (MongoDB)
\* Whether the filter { sessionId: f } selects document d. A plain value is
\* matched by equality, kind included (5 is not "5"); { $ne: null } is a
\* query operator and selects every document that has a sessionId.
IsOperator(f) == f.t = "object" /\ Len(f.v) > 0 /\ f.v[1] = "$ne"

Matches(f, d) ==
  IF IsOperator(f) THEN d.sessionId.t \notin {"undefined", "null"}
  ELSE d.sessionId = f

\* Index of the first document of coll the filter selects, 0 when none.
FirstMatch(f, coll) ==
  LET hits == {k \in 1..Len(coll) : Matches(f, coll[k])}
  IN IF hits = {} THEN 0 ELSE CHOOSE k \in hits : \A j \in hits : k <= j

\* coll without its k-th document.
DeleteAt(coll, k) ==
  [j \in 1..(Len(coll) - 1) |-> IF j < k THEN coll[j] ELSE coll[j + 1]]

\* A $set that also carries createdAt (the field moved out of $setOnInsert).
SetConversationAndCreatedAt(d, r) ==
  [d EXCEPT !.messages = r.messages, !.updatedAt = r.now, !.createdAt = r.now]

\* A $set that leaves updatedAt out (the field moved into $setOnInsert).
SetConversationMessagesOnly(d, r) ==
  [d EXCEPT !.messages = r.messages]

\* $set: { messages, updatedAt: new Date() } on a matched document.
SetConversation(d, r) ==
  [d EXCEPT !.messages = r.messages, !.updatedAt = r.now]

\* The document an upsert inserts: the filter's equality fields (an operator
\* expression contributes none), $set and $setOnInsert: { createdAt }.
InsertedConversation(r, id) ==
  [id |-> id,
   sessionId |-> IF IsOperator(r.sessionId) THEN Undef ELSE r.sessionId,
   messages |-> r.messages,
   updatedAt |-> r.now,
   createdAt |-> r.now]

\* ------------------------------------------------- POST /api/conversations
\* if (!sessionId || !messages) return res.status(400)
SavePayloadRejected(sessionId, messages) ==
  ~Truthy(sessionId) \/ ~Truthy(messages)

\* The handler up to `await conversations.updateOne(...)`; both new Date()
\* of the update document are read here.
SaveArrive(i, sessionId, messages, dt) ==
  /\ CanTake(i) /\ saves < MaxSaves
  /\ clock' = clock + dt
  /\ Handle(i, [Idle EXCEPT !.kind = "save", !.sessionId = sessionId,
                            !.messages = messages, !.now = clock'],
            SavePayloadRejected(sessionId, messages))
  /\ saves' = saves + 1
  /\ UNCHANGED <<conn, db, listening, running, nextId, conversations, users,
                 lastSaved>>

\* The store applies updateOne(..., { upsert: true }): it updates the first
\* document the filter selects, or finds none and goes on to insert.
UpsertApply(i) ==
  /\ running
  /\ req[i].kind = "save" /\ req[i].pc = "sent"
  /\ LET k == FirstMatch(req[i].sessionId, conversations)
     IN IF k > 0
        THEN /\ conversations' =
                  [conversations EXCEPT ![k] = SetConversation(@, req[i])]
             /\ req' = [req EXCEPT ![i] = Idle]
             /\ answer' = Answer(req[i], 200)
             /\ lastSaved' =
                  [lastSaved EXCEPT ![ToParam(req[i].sessionId)] = req[i].messages]
        ELSE /\ req' = [req EXCEPT ![i].pc = "inserting"]
             /\ UNCHANGED <<conversations, answer, lastSaved>>
  /\ UNCHANGED <<conn, db, listening, running, clock, nextId, saves, users>>

\* The insert of an upsert that matched nothing; then res.json({ success }).
UpsertInsert(i) ==
  /\ running
  /\ req[i].kind = "save" /\ req[i].pc = "inserting"
  /\ conversations' = Append(conversations, InsertedConversation(req[i], nextId))
  /\ nextId' = nextId + 1
  /\ req' = [req EXCEPT ![i] = Idle]
  /\ answer' = Answer(req[i], 200)
  /\ lastSaved' =
       [lastSaved EXCEPT ![ToParam(req[i].sessionId)] = req[i].messages]
  /\ UNCHANGED <<conn, db, listening, running, clock, saves, users>>

\* --------------------------------------- GET /api/conversations/:sessionId
LoadArrive(i, sessionId) ==
  /\ CanTake(i)
  /\ Handle(i, [Idle EXCEPT !.kind = "load", !.sessionId = sessionId],
            ~Truthy(sessionId))
  /\ UNCHANGED <<conn, db, listening, running, clock, nextId, saves, conversations,
                 users, lastSaved>>

\* findOne({ sessionId }) and the answer: the messages, or null.
FindOneApply(i) ==
  /\ running
  /\ req[i].kind = "load" /\ req[i].pc = "sent"
  /\ LET k == FirstMatch(req[i].sessionId, conversations)
     IN answer' = [Answer(req[i], 200) EXCEPT
                     !.result = IF k > 0 THEN conversations[k].messages ELSE Null]
  /\ req' = [req EXCEPT ![i] = Idle]
  /\ UNCHANGED <<conn, db, listening, running, clock, nextId, saves,
                 conversations, users, lastSaved>>

\* ------------------------------------ DELETE /api/conversations/:sessionId
RemoveArrive(i, sessionId) ==
  /\ CanTake(i)
  /\ Handle(i, [Idle EXCEPT !.kind = "remove", !.sessionId = sessionId],
            ~Truthy(sessionId))
  /\ UNCHANGED <<conn, db, listening, running, clock, nextId, saves, conversations,
                 users, lastSaved>>

\* deleteOne({ sessionId }) and the answer: deleted = result.deletedCount.
DeleteOneApply(i) ==
  /\ running
  /\ req[i].kind = "remove" /\ req[i].pc = "sent"
  /\ LET k == FirstMatch(req[i].sessionId, conversations)
     IN /\ conversations' = IF k > 0 THEN DeleteAt(conversations, k)
                            ELSE conversations
        /\ answer' = [Answer(req[i], 200) EXCEPT
                        !.deleted = IF k > 0 THEN 1 ELSE 0]
  /\ req' = [req EXCEPT ![i] = Idle]
  /\ lastSaved' = [lastSaved EXCEPT ![req[i].sessionId] = Null]
  /\ UNCHANGED <<conn, db, listening, running, clock, nextId, saves, users>>

\* The store call rejects: catch (error) { res.status(500) }, nothing written.
StoreError(i) ==
  /\ running
  /\ req[i].pc = "sent"
  /\ answer' = Answer(req[i], 500)
  /\ req' = [req EXCEPT ![i] = Idle]
  /\ UNCHANGED <<conn, db, listening, running, clock, nextId, saves,
                 conversations, users, lastSaved>>

Next ==
  \/ ConnectOK
  \/ ConnectFail
  \/ Listen
  \/ \E i \in Slots : Health(i)
  \/ \E i \in Slots, s \in BodySessionIds, m \in BodyMessages, dt \in Elapsed :
       SaveArrive(i, s, m, dt)
  \/ \E i \in Slots : UpsertApply(i)
  \/ \E i \in Slots : UpsertInsert(i)
  \/ \E i \in Slots, s \in ParamSessionIds : LoadArrive(i, s)
  \/ \E i \in Slots : FindOneApply(i)
  \/ \E i \in Slots, s \in ParamSessionIds : RemoveArrive(i, s)
  \/ \E i \in Slots : DeleteOneApply(i)
  \/ \E i \in Slots : StoreError(i)

Spec == Init /\ [][Next]_vars

\* --------------------------------------------------------- POST /api/users
validateUserPayload(user) ==
  LET u == [t |-> user.t, v |-> <<"x">>]
      optionalStrings ==
        {f \in {"sub", "picture", "hd", "locale", "phone"} : Truthy(user[f])}
  IN /\ Truthy(u) /\ TypeOf(u) = "object"
     /\ TypeOf(user.email) = "string" /\ Len(Trim(user.email.v)) > 0
     /\ TypeOf(user.name) = "string" /\ Len(Trim(user.name.v)) > 0
     /\ \A f \in optionalStrings : TypeOf(user[f]) = "string"
     /\ (user.emailVerified.t = "undefined"
           \/ TypeOf(user.emailVerified) = "boolean")

\* const key = user.sub || user.email
UserKey(user) == IF Truthy(user.sub) THEN user.sub ELSE user.email

\* Index of the first document of coll whose key is the given one, 0 when none.
FirstUser(key, coll) ==
  LET hits == {k \in 1..Len(coll) : coll[k].key = key}
  IN IF hits = {} THEN 0 ELSE CHOOSE k \in hits : \A j \in hits : k <= j

\* $set: { key, sub, email, name, picture, emailVerified, hd, locale, phone,
\*         lastLoginAt: new Date() }
SetUser(d, r) ==
  [d EXCEPT !.key = UserKey(r.user), !.sub = r.user.sub, !.email = r.user.email,
            !.name = r.user.name, !.picture = r.user.picture,
            !.emailVerified = r.user.emailVerified, !.hd = r.user.hd,
            !.locale = r.user.locale, !.phone = r.user.phone,
            !.lastLoginAt = r.now]

\* The inserted document: the filter's key, $set, $setOnInsert: { createdAt }.
InsertedUser(r, id) ==
  [id |-> id, key |-> UserKey(r.user), sub |-> r.user.sub,
   email |-> r.user.email, name |-> r.user.name, picture |-> r.user.picture,
   emailVerified |-> r.user.emailVerified, hd |-> r.user.hd,
   locale |-> r.user.locale, phone |-> r.user.phone,
   lastLoginAt |-> r.now, createdAt |-> r.now]

\* The handler up to `await users.updateOne(...)`.
UserArrive(i, user, dt) ==
  /\ CanTake(i) /\ saves < MaxSaves
  /\ clock' = clock + dt
  /\ Handle(i, [Idle EXCEPT !.kind = "user", !.user = user, !.now = clock'],
            ~validateUserPayload(user))
  /\ saves' = saves + 1
  /\ UNCHANGED <<conn, db, listening, running, nextId, conversations, users,
                 lastSaved>>

\* The store applies users.updateOne({ key }, ..., { upsert: true }).
UserUpsertApply(i) ==
  /\ running
  /\ req[i].kind = "user" /\ req[i].pc = "sent"
  /\ LET k == FirstUser(UserKey(req[i].user), users)
     IN IF k > 0
        THEN /\ users' = [users EXCEPT ![k] = SetUser(@, req[i])]
             /\ req' = [req EXCEPT ![i] = Idle]
             /\ answer' = Answer(req[i], 200)
        ELSE /\ req' = [req EXCEPT ![i].pc = "inserting"]
             /\ UNCHANGED <<users, answer>>
  /\ UNCHANGED <<conn, db, listening, running, clock, nextId, saves,
                 conversations, lastSaved>>

\* The insert of a user upsert that matched nothing; then res.json.
UserUpsertInsert(i) ==
  /\ running
  /\ req[i].kind = "user" /\ req[i].pc = "inserting"
  /\ users' = Append(users, InsertedUser(req[i], nextId))
  /\ nextId' = nextId + 1
  /\ req' = [req EXCEPT ![i] = Idle]
  /\ answer' = Answer(req[i], 200)
  /\ UNCHANGED <<conn, db, listening, running, clock, saves, conversations,
                 lastSaved>>

NextUsers ==
  \/ ConnectOK
  \/ ConnectFail
  \/ Listen
  \/ \E i \in Slots, u \in BodyUsers, dt \in Elapsed : UserArrive(i, u, dt)
  \/ \E i \in Slots : UserUpsertApply(i)
  \/ \E i \in Slots : UserUpsertInsert(i)
  \/ \E i \in Slots : StoreError(i)

SpecUsers == Init /\ [][NextUsers]_vars

\* ------------------------------------------------------------- properties
\* The store call of request i is applied, and answered 200, in this step.
Applied(i) ==
  /\ req[i].pc \in {"sent", "inserting"}
  /\ req'[i].pc = "idle" /\ answer'.status = 200

\* Document ids of a collection.
Ids(coll) == {coll[k].id : k \in 1..Len(coll)}

\* The document of coll with the given id.
ById(coll, id) == coll[CHOOSE k \in 1..Len(coll) : coll[k].id = id]

\* The stored documents whose sessionId is s.
DocsOf(s, coll) == {k \in 1..Len(coll) : coll[k].sessionId = s}

\* C1: a load of s that succeeds returns exactly the messages of the most
\* recent applied save of s not followed by a remove of s, and null when
\* there is none, for every sessionId that save accepts.
LoadReturnsLastSaved ==
  [][\A i \in Slots :
       (req[i].kind = "load" /\ Applied(i))
         => answer'.result = lastSaved[req[i].sessionId]]_vars

\* C2: a conversation document's createdAt is the clock reading of the save
\* that inserted it and never changes while the document exists; a later
\* save of it replaces messages and updatedAt only.
CreatedAtSetOnce ==
  [][/\ \A id \in Ids(conversations) \cap Ids(conversations') :
          ById(conversations', id).createdAt = ById(conversations, id).createdAt
     /\ \A id \in Ids(conversations') \ Ids(conversations) :
          \E i \in Slots :
            /\ req[i].kind = "save" /\ req[i].pc = "inserting" /\ Applied(i)
            /\ ById(conversations', id).createdAt = req[i].now
     /\ \A i \in Slots :
          (req[i].kind = "save" /\ req[i].pc = "sent" /\ Applied(i))
            => LET k == FirstMatch(req[i].sessionId, conversations)
               IN /\ conversations'[k].messages = req[i].messages
                  /\ conversations'[k].updatedAt = req[i].now
                  /\ conversations'[k].createdAt = conversations[k].createdAt]_vars

\* C2 (case): a document that a later save has written (its updatedAt is
\* past its createdAt).
SavedAgainLater ==
  \E k \in 1..Len(conversations) :
    conversations[k].updatedAt > conversations[k].createdAt

\* C3 (as stated): the stored updatedAt of a document never decreases, also
\* with several saves of its sessionId in flight at once.
UpdatedAtNeverDecreases ==
  [][\A id \in Ids(conversations) \cap Ids(conversations') :
       ById(conversations', id).updatedAt >= ById(conversations, id).updatedAt]_vars

\* C3 (amended): a save that is applied to an existing document sets its
\* updatedAt to the clock value the save's handler read, which is never ahead
\* of the clock; so updatedAt decreases only when the applied save read the
\* clock before the save that wrote the document last.
UpdatedAtIsHandlerClock ==
  [][/\ \A k \in 1..Len(conversations') : conversations'[k].updatedAt <= clock'
     /\ \A id \in Ids(conversations) \cap Ids(conversations') :
          ById(conversations', id) /= ById(conversations, id)
            => \E i \in Slots :
                 /\ req[i].kind = "save" /\ req[i].pc = "sent" /\ Applied(i)
                 /\ ById(conversations', id).updatedAt = req[i].now]_vars

\* C3 (case): two saves of one sessionId were applied out of clock order: the
\* document was inserted by the save that read the clock later and then
\* written by the one that read it earlier.
AppliedOutOfClockOrder ==
  \E k \in 1..Len(conversations) :
    /\ conversations[k].updatedAt < conversations[k].createdAt
    /\ answer.kind = "save" /\ answer.status = 200
    /\ answer.sessionId = conversations[k].sessionId
    /\ answer.now = conversations[k].updatedAt

\* C4: a remove that succeeds reports deleted = 1 exactly when a document of
\* its sessionId existed just before, and leaves no document of that
\* sessionId behind.
RemoveLeavesAbsent ==
  [][\A i \in Slots :
       (req[i].kind = "remove" /\ Applied(i))
         => /\ answer'.deleted =
                 IF DocsOf(req[i].sessionId, conversations) /= {} THEN 1 ELSE 0
            /\ DocsOf(req[i].sessionId, conversations') = {}]_vars

\* C5: once the store is connected, a save is answered 400, with no store
\* call, exactly when its sessionId is not a non-empty string or its messages
\* are null or missing; every other save goes on to its store write.
ClaimedSaveRejected(sessionId, messages) ==
  \/ ~(sessionId.t = "string" /\ Len(sessionId.v) > 0)
  \/ messages.t \in {"undefined", "null"}

SaveRejectedIffMissing ==
  [][(saves' = saves + 1 /\ db /= "undefined")
       => /\ \A i \in Slots :
               (req'[i] /= req[i] /\ req'[i].kind = "save")
                 => ~ClaimedSaveRejected(req'[i].sessionId, req'[i].messages)
          /\ (req' = req /\ answer'.kind = "save")
               => /\ answer'.status = 400
                  /\ ClaimedSaveRejected(answer'.sessionId, answer'.messages)]_vars

\* C6: no two conversation documents carry the same sessionId.
AtMostOneConversationPerSession ==
  \A k, j \in 1..Len(conversations) :
    (conversations[k].sessionId = conversations[j].sessionId
       /\ conversations[k].sessionId.t /= "undefined")
      => k = j

\* C7: POST /api/users answers 400 exactly for the payloads that are not a
\* record with a non-blank string email and name, string values for those of
\* sub, picture, hd, locale, phone that are present and non-empty, and a
\* boolean emailVerified when one is given.
PresentNonEmpty(x) == x.t \notin {"undefined", "null"} /\ x /= Str(<< >>)

ClaimedValidUser(user) ==
  /\ user.t = "object"
  /\ user.email.t = "string" /\ Trim(user.email.v) /= << >>
  /\ user.name.t = "string" /\ Trim(user.name.v) /= << >>
  /\ \A f \in {"sub", "picture", "hd", "locale", "phone"} :
       PresentNonEmpty(user[f]) => user[f].t = "string"
  /\ user.emailVerified.t /= "undefined" => user.emailVerified.t = "boolean"

UserRejectedIffInvalid ==
  /\ answer.kind = "user"
       => ((answer.status = 400) <=> ~ClaimedValidUser(answer.user))
  /\ \A i \in Slots : req[i].kind = "user" => ClaimedValidUser(req[i].user)

\* C8: no two user documents carry the same key.
AtMostOneUserPerKey ==
  \A k, j \in 1..Len(users) : users[k].key = users[j].key => k = j

\* C9: no request is taken before the store connection is established, and
\* none has been taken when a failed connection halts the process.
NoRequestBeforeConnected ==
  conn /= "connected" => (answer = Idle /\ \A i \in Slots : req[i] = Idle)

\* C10: a step creates, changes or deletes only conversation documents whose
\* sessionId is that of a save or remove applied in that step (a document
\* stored without a sessionId belongs to no session and is not counted).
TouchesOnlyOwnSession ==
  [][/\ \A k \in 1..Len(conversations) :
          (\A j \in 1..Len(conversations') : conversations'[j] /= conversations[k])
            => \E i \in Slots :
                 /\ req[i].kind \in {"save", "remove"} /\ Applied(i)
                 /\ conversations[k].sessionId = req[i].sessionId
     /\ \A j \in 1..Len(conversations') :
          (/\ conversations'[j].sessionId.t /= "undefined"
           /\ \A k \in 1..Len(conversations) : conversations[k] /= conversations'[j])
            => \E i \in Slots :
                 /\ req[i].kind \in {"save", "remove"} /\ Applied(i)
                 /\ conversations'[j].sessionId = req[i].sessionId]_vars

====
